---- MODULE Spec2Model ----
(***************************************************************************)
(* Model of the psbench benchmarking harness:                              *)
(*   - Benchmark.run, the stream-scaling driver loop                       *)
(*     (src/psbench/benchmarks/stream_scaling/main.py), inside the        *)
(*     `with` block of Benchmark.__enter__ / Benchmark.__exit__            *)
(*   - CSVLogger, the results logger (psbench/results.py, known here       *)
(*     through src/tests/results_test.py and the specification)           *)
(*   - the command-line options (src/psbench/argparse.py), the store       *)
(*     dispatch (src/psbench/proxystore.py) and the executor               *)
(*     configuration (psbench/config/executor.py, known here through       *)
(*     src/tests/config/executor_test.py and the specification)            *)
(***************************************************************************)
EXTENDS Integers, Sequences, FiniteSets, TLC

(***************************************************************************)
(* Bounds of the model.                                                    *)
(***************************************************************************)
\* executor.max_workers ranges over 2..MaxWorkers
MaxWorkers == 4
\* config.task_count (max_items of the generator) ranges over 0..MaxItems
MaxItems == 4
\* a record type has 1..MaxFields fields
MaxFields == 2
\* at most MaxRecords records are logged to the CSV file
MaxRecords == 2
\* the scanned argument list (sys.argv) holds at most MaxArgs options
MaxArgs == 2
\* a list handed to parse_args explicitly holds at most MaxExplicit options
MaxExplicit == 1

VARIABLES
    \* ---- Benchmark.run ----
    pc,               \* position of the main thread inside Benchmark.run
    max_workers,      \* self.max_workers
    task_count,       \* config.task_count
    running_tasks,    \* the deque of compute futures (ids, in submit order)
    completed_tasks,  \* the counter returned in RunResult
    submitted,        \* number of compute tasks handed to executor.submit
    awaited,          \* compute futures run() has blocked on, in order
    done_tasks,       \* compute futures whose task has finished
    stop_generator,   \* the Future[bool] stop flag: TRUE once set_result(True)
    interrupted,      \* a KeyboardInterrupt was raised inside the loop
    gen_submitted,    \* the generator task was handed to the executor
    gen_sent,         \* items the generator has published
    gen_done,         \* generator_task_future is done
    stream_pending,   \* items published and not yet consumed
    stream_closed,    \* the generator closed the topic (end of stream)
    \* ---- CSVLogger ----
    csv_file,         \* the file at filepath: [exists, lines]
    csv_logger,       \* the CSVLogger object: [open, fields]
    csv_logged,       \* the rows passed to log() since the file was created
    csv_last,         \* the last CSVLogger(filepath, data_type) call
    \* ---- command line, store and executor configuration ----
    arg_pc,           \* position of the command-line handling
    arg_group,        \* which add_*_options call built the parser
    scanned_argv,     \* the raw argument list scanned for requiredness
    opt_required,     \* the dests the parser holds as required=True
    parse_out,        \* result of parse_args: [status, ns]
    store_out,        \* result of init_store_from_args: [kind, name]
    store_registry,   \* names given to register_store
    stores_created,   \* names of the Store objects constructed
    exec_out,         \* result of the executor configuration calls
    \* ---- Benchmark.__enter__ / __exit__ ----
    ctx_pc,           \* position of the `with Benchmark(...)` statement
    ctx_stack,        \* the ExitStack of the with block inside __enter__
    ctx_saved,        \* self._stack
    ctx_entered,      \* the resources whose __enter__ returned, in order
    ctx_exited,       \* the resources whose __exit__ was called, in order
    ctx_exc           \* an exception is propagating out of __enter__

runVars == <<pc, max_workers, task_count, running_tasks, completed_tasks,
             submitted, awaited, done_tasks, stop_generator, interrupted,
             gen_submitted, gen_sent, gen_done, stream_pending, stream_closed>>

csvVars == <<csv_file, csv_logger, csv_logged, csv_last>>

argVars == <<arg_pc, arg_group, scanned_argv, opt_required, parse_out,
             store_out, store_registry, stores_created, exec_out>>

ctxVars == <<ctx_pc, ctx_stack, ctx_saved, ctx_entered, ctx_exited, ctx_exc>>

nonRunVars == <<csvVars, argVars, ctxVars>>
nonCsvVars == <<runVars, argVars, ctxVars>>
nonArgVars == <<runVars, csvVars, ctxVars>>
nonCtxVars == <<runVars, csvVars, argVars>>

vars == <<runVars, csvVars, argVars, ctxVars>>

(***************************************************************************)
(* Benchmark.run                                                           *)
(***************************************************************************)

\* compute_workers = self.max_workers - 1
compute_workers == max_workers - 1

\* The positions of the consume/submit loop, inside the try block.
LoopPcs == {"next_item", "submit", "append", "check", "await", "count"}

\* Mutant of WindowFull: the window test written with > instead of >=
WindowFullStrict(n, cw) == n > cw

\* if len(running_tasks) >= compute_workers
WindowFull(n, cw) == n >= cw

\* Mutant of popleft: pop() takes the newest future instead of the oldest
popright(q) == [item |-> q[Len(q)], rest |-> SubSeq(q, 1, Len(q) - 1)]

\* running_tasks.popleft(): the future returned, and the deque left
popleft(q) == [item |-> Head(q), rest |-> Tail(q)]

\* Mutant of HandlerStopFlag: the handler only logs and leaves the flag as is
HandlerKeepsFlag(flag) == flag

\* except KeyboardInterrupt: stop_generator.set_result(True)
HandlerStopFlag(flag) == TRUE

\* Mutant of Counted: the counter is left as it is
\* Mutant of ResultReturns: result() returns without waiting
ResultReturnsEarly(done) == TRUE

\* lines 175 and 183: generator_task_future.result() blocks until the
\* future of the generator task is done
ResultReturns(done) == done

CountedNot(n) == n

\* completed_tasks += 1
Counted(n) == n + 1

\* Benchmark.run is not running
IdleRun ==
    /\ pc = "idle"
    /\ max_workers = 2
    /\ task_count = 0
    /\ running_tasks = <<>>
    /\ completed_tasks = 0
    /\ submitted = 0
    /\ awaited = <<>>
    /\ done_tasks = {}
    /\ stop_generator = FALSE
    /\ interrupted = FALSE
    /\ gen_submitted = FALSE
    /\ gen_sent = 0
    /\ gen_done = FALSE
    /\ stream_pending = 0
    /\ stream_closed = FALSE

InitRun ==
    /\ pc = "start"
    /\ max_workers \in 2..MaxWorkers
    /\ task_count \in 0..MaxItems
    /\ running_tasks = <<>>
    /\ completed_tasks = 0
    /\ submitted = 0
    /\ awaited = <<>>
    /\ done_tasks = {}
    /\ stop_generator = FALSE
    /\ interrupted = FALSE
    /\ gen_submitted = FALSE
    /\ gen_sent = 0
    /\ gen_done = FALSE
    /\ stream_pending = 0
    /\ stream_closed = FALSE

\* run() is called inside the with block, once __enter__ has returned;
\* lines 119-142: create the stop future, submit the generator task,
\* completed_tasks = 0, running_tasks = deque()
SubmitGenerator ==
    /\ pc = "start"
    /\ ctx_pc = "entered"
    /\ pc' = "next_item"
    /\ gen_submitted' = TRUE
    /\ stop_generator' = FALSE
    /\ completed_tasks' = 0
    /\ running_tasks' = <<>>
    /\ UNCHANGED <<max_workers, task_count, submitted, awaited, done_tasks,
                   interrupted, gen_sent, gen_done, stream_pending,
                   stream_closed>>
    /\ UNCHANGED nonRunVars

\* line 145: the consumer iterator yields the next item
ConsumeItem ==
    /\ pc = "next_item"
    /\ stream_pending > 0
    /\ stream_pending' = stream_pending - 1
    /\ pc' = "submit"
    /\ UNCHANGED <<max_workers, task_count, running_tasks, completed_tasks,
                   submitted, awaited, done_tasks, stop_generator,
                   interrupted, gen_submitted, gen_sent, gen_done,
                   stream_closed>>
    /\ UNCHANGED nonRunVars

\* line 145: the consumer iterator is exhausted, the for loop ends and the
\* finally clause runs
StreamEnd ==
    /\ pc = "next_item"
    /\ stream_pending = 0
    /\ stream_closed
    /\ pc' = "finally"
    /\ UNCHANGED <<max_workers, task_count, running_tasks, completed_tasks,
                   submitted, awaited, done_tasks, stop_generator,
                   interrupted, gen_submitted, gen_sent, gen_done,
                   stream_pending, stream_closed>>
    /\ UNCHANGED nonRunVars

\* lines 151-155: task_future = self.executor.submit(compute_task, ...)
SubmitCompute ==
    /\ pc = "submit"
    /\ submitted' = submitted + 1
    /\ pc' = "append"
    /\ UNCHANGED <<max_workers, task_count, running_tasks, completed_tasks,
                   awaited, done_tasks, stop_generator, interrupted,
                   gen_submitted, gen_sent, gen_done, stream_pending,
                   stream_closed>>
    /\ UNCHANGED nonRunVars

\* line 160: running_tasks.append(task_future)
AppendTask ==
    /\ pc = "append"
    /\ running_tasks' = Append(running_tasks, submitted)
    /\ pc' = "check"
    /\ UNCHANGED <<max_workers, task_count, completed_tasks, submitted,
                   awaited, done_tasks, stop_generator, interrupted,
                   gen_submitted, gen_sent, gen_done, stream_pending,
                   stream_closed>>
    /\ UNCHANGED nonRunVars

\* lines 164-165: the window test, and popleft() when it is full
CheckWindow ==
    /\ pc = "check"
    /\ IF WindowFull(Len(running_tasks), compute_workers)
       THEN /\ awaited' = Append(awaited, popleft(running_tasks).item)
            /\ running_tasks' = popleft(running_tasks).rest
            /\ pc' = "await"
       ELSE /\ pc' = "next_item"
            /\ UNCHANGED <<awaited, running_tasks>>
    /\ UNCHANGED <<max_workers, task_count, completed_tasks, submitted,
                   done_tasks, stop_generator, interrupted, gen_submitted,
                   gen_sent, gen_done, stream_pending, stream_closed>>
    /\ UNCHANGED nonRunVars

\* line 166: oldest_task_future.result() returns once the task is done
AwaitOldest ==
    /\ pc = "await"
    /\ awaited[Len(awaited)] \in done_tasks
    /\ pc' = "count"
    /\ UNCHANGED <<max_workers, task_count, running_tasks, completed_tasks,
                   submitted, awaited, done_tasks, stop_generator,
                   interrupted, gen_submitted, gen_sent, gen_done,
                   stream_pending, stream_closed>>
    /\ UNCHANGED nonRunVars

\* line 167: completed_tasks += 1
CountCompleted ==
    /\ pc = "count"
    /\ completed_tasks' = Counted(completed_tasks)
    /\ pc' = "next_item"
    /\ UNCHANGED <<max_workers, task_count, running_tasks, submitted,
                   awaited, done_tasks, stop_generator, interrupted,
                   gen_submitted, gen_sent, gen_done, stream_pending,
                   stream_closed>>
    /\ UNCHANGED nonRunVars

\* A KeyboardInterrupt is raised in the main thread while it is inside the
\* try block (lines 144-167); control moves to the except clause, line 168.
Interrupt ==
    /\ pc \in LoopPcs
    /\ interrupted' = TRUE
    /\ pc' = "except"
    /\ UNCHANGED <<max_workers, task_count, running_tasks, completed_tasks,
                   submitted, awaited, done_tasks, stop_generator,
                   gen_submitted, gen_sent, gen_done, stream_pending,
                   stream_closed>>
    /\ UNCHANGED nonRunVars

\* lines 168-172: the handler sets the stop flag, then the finally clause runs
HandleInterrupt ==
    /\ pc = "except"
    /\ stop_generator' = HandlerStopFlag(stop_generator)
    /\ pc' = "finally"
    /\ UNCHANGED <<max_workers, task_count, running_tasks, completed_tasks,
                   submitted, awaited, done_tasks, interrupted, gen_submitted,
                   gen_sent, gen_done, stream_pending, stream_closed>>
    /\ UNCHANGED nonRunVars

\* lines 173-175: finally: generator_task_future.result()
FinallyWaitGenerator ==
    /\ pc = "finally"
    /\ ResultReturns(gen_done)
    /\ pc' = "join"
    /\ UNCHANGED <<max_workers, task_count, running_tasks, completed_tasks,
                   submitted, awaited, done_tasks, stop_generator,
                   interrupted, gen_submitted, gen_sent, gen_done,
                   stream_pending, stream_closed>>
    /\ UNCHANGED nonRunVars

\* line 183: generator_task_future.result(), a second time
JoinGenerator ==
    /\ pc = "join"
    /\ ResultReturns(gen_done)
    /\ pc' = "drain"
    /\ UNCHANGED <<max_workers, task_count, running_tasks, completed_tasks,
                   submitted, awaited, done_tasks, stop_generator,
                   interrupted, gen_submitted, gen_sent, gen_done,
                   stream_pending, stream_closed>>
    /\ UNCHANGED nonRunVars

\* lines 188-189: while len(running_tasks) > 0: task = popleft()
DrainPop ==
    /\ pc = "drain"
    /\ IF Len(running_tasks) > 0
       THEN /\ awaited' = Append(awaited, popleft(running_tasks).item)
            /\ running_tasks' = popleft(running_tasks).rest
            /\ pc' = "drain_await"
       ELSE /\ pc' = "done"
            /\ UNCHANGED <<awaited, running_tasks>>
    /\ UNCHANGED <<max_workers, task_count, completed_tasks, submitted,
                   done_tasks, stop_generator, interrupted, gen_submitted,
                   gen_sent, gen_done, stream_pending, stream_closed>>
    /\ UNCHANGED nonRunVars

\* lines 190-191: task.result(); completed_tasks += 1
DrainAwait ==
    /\ pc = "drain_await"
    /\ awaited[Len(awaited)] \in done_tasks
    /\ completed_tasks' = Counted(completed_tasks)
    /\ pc' = "drain"
    /\ UNCHANGED <<max_workers, task_count, running_tasks, submitted,
                   awaited, done_tasks, stop_generator, interrupted,
                   gen_submitted, gen_sent, gen_done, stream_pending,
                   stream_closed>>
    /\ UNCHANGED nonRunVars

\* A worker of the executor finishes a submitted compute task.
TaskComplete ==
    /\ \E t \in (1..submitted) \ done_tasks :
          done_tasks' = done_tasks \cup {t}
    /\ UNCHANGED <<pc, max_workers, task_count, running_tasks,
                   completed_tasks, submitted, awaited, stop_generator,
                   interrupted, gen_submitted, gen_sent, gen_done,
                   stream_pending, stream_closed>>
    /\ UNCHANGED nonRunVars

\* The generator task publishes one more item to the stream.
GenPublish ==
    /\ gen_submitted
    /\ ~gen_done
    /\ gen_sent < task_count
    /\ gen_sent' = gen_sent + 1
    /\ stream_pending' = stream_pending + 1
    /\ UNCHANGED <<pc, max_workers, task_count, running_tasks,
                   completed_tasks, submitted, awaited, done_tasks,
                   stop_generator, interrupted, gen_submitted, gen_done,
                   stream_closed>>
    /\ UNCHANGED nonRunVars

\* The generator task ends: it has published max_items items, or it has
\* seen the stop flag; it closes the topic and its future becomes done.
GenFinish ==
    /\ gen_submitted
    /\ ~gen_done
    /\ gen_sent = task_count \/ stop_generator
    /\ gen_done' = TRUE
    /\ stream_closed' = TRUE
    /\ UNCHANGED <<pc, max_workers, task_count, running_tasks,
                   completed_tasks, submitted, awaited, done_tasks,
                   stop_generator, interrupted, gen_submitted, gen_sent,
                   stream_pending>>
    /\ UNCHANGED nonRunVars

NextRun ==
    \/ SubmitGenerator
    \/ ConsumeItem
    \/ StreamEnd
    \/ SubmitCompute
    \/ AppendTask
    \/ CheckWindow
    \/ AwaitOldest
    \/ CountCompleted
    \/ Interrupt
    \/ HandleInterrupt
    \/ FinallyWaitGenerator
    \/ JoinGenerator
    \/ DrainPop
    \/ DrainAwait
    \/ TaskComplete
    \/ GenPublish
    \/ GenFinish

(***************************************************************************)
(* Benchmark.__enter__ and Benchmark.__exit__                              *)
(***************************************************************************)

\* The context managers __enter__ enters, in the order of lines 84-88
Resources == <<"consumer", "executor", "store">>

\* Mutant of pop_all: self._stack = stack, the callbacks stay on the stack
\* of the with block
keep_all(stack) == [saved |-> stack, left |-> stack]

\* self._stack = stack.pop_all(): the callbacks move to a new ExitStack
pop_all(stack) == [saved |-> stack, left |-> <<>>]

\* The last element of a sequence and the sequence without it (callbacks
\* of an ExitStack run last-in, first-out)
Last(q) == q[Len(q)]
Front(q) == SubSeq(q, 1, Len(q) - 1)

\* No Benchmark is in use
IdleCtx ==
    /\ ctx_pc = "idle"
    /\ ctx_stack = <<>>
    /\ ctx_saved = <<>>
    /\ ctx_entered = <<>>
    /\ ctx_exited = <<>>
    /\ ctx_exc = FALSE

\* The Benchmark is constructed and not yet entered
InitCtx ==
    /\ ctx_pc = "constructed"
    /\ ctx_stack = <<>>
    /\ ctx_saved = <<>>
    /\ ctx_entered = <<>>
    /\ ctx_exited = <<>>
    /\ ctx_exc = FALSE

\* lines 83-88: stack.enter_context(r) of the next resource returns
EnterResource ==
    /\ ctx_pc \in {"constructed", "entering"}
    /\ Len(ctx_stack) < Len(Resources)
    /\ LET r == Resources[Len(ctx_stack) + 1]
       IN  /\ ctx_stack' = Append(ctx_stack, r)
           /\ ctx_entered' = Append(ctx_entered, r)
    /\ ctx_pc' = "entering"
    /\ UNCHANGED <<ctx_saved, ctx_exited, ctx_exc>>
    /\ UNCHANGED nonCtxVars

\* lines 83-88: the __enter__ of the next resource raises; nothing is pushed
\* for it and the with block is left with the exception
EnterRaises ==
    /\ ctx_pc \in {"constructed", "entering"}
    /\ Len(ctx_stack) < Len(Resources)
    /\ ctx_exc' = TRUE
    /\ ctx_pc' = "unwind"
    /\ UNCHANGED <<ctx_stack, ctx_saved, ctx_entered, ctx_exited>>
    /\ UNCHANGED nonCtxVars

\* line 89: self._stack = stack.pop_all(), then the with block is left
PopAll ==
    /\ ctx_pc = "entering"
    /\ Len(ctx_stack) = Len(Resources)
    /\ ctx_saved' = pop_all(ctx_stack).saved
    /\ ctx_stack' = pop_all(ctx_stack).left
    /\ ctx_pc' = "unwind"
    /\ UNCHANGED <<ctx_entered, ctx_exited, ctx_exc>>
    /\ UNCHANGED nonCtxVars

\* line 83: leaving the with block, the ExitStack exits what it still holds,
\* the last entered first
UnwindExit ==
    /\ ctx_pc = "unwind"
    /\ ctx_stack # <<>>
    /\ ctx_exited' = Append(ctx_exited, Last(ctx_stack))
    /\ ctx_stack' = Front(ctx_stack)
    /\ UNCHANGED <<ctx_pc, ctx_saved, ctx_entered, ctx_exc>>
    /\ UNCHANGED nonCtxVars

\* line 90: return self, or the exception leaves __enter__
EnterEnds ==
    /\ ctx_pc = "unwind"
    /\ ctx_stack = <<>>
    /\ ctx_pc' = IF ctx_exc THEN "raised" ELSE "entered"
    /\ UNCHANGED <<ctx_stack, ctx_saved, ctx_entered, ctx_exited, ctx_exc>>
    /\ UNCHANGED nonCtxVars

\* lines 92-98: the with statement calls __exit__ when its body has ended,
\* run() not being in progress
BenchExit ==
    /\ ctx_pc = "entered"
    /\ pc \in {"start", "done"}
    /\ ctx_pc' = "exiting"
    /\ UNCHANGED <<ctx_stack, ctx_saved, ctx_entered, ctx_exited, ctx_exc>>
    /\ UNCHANGED nonCtxVars

\* line 98: self._stack.__exit__(...) exits the next resource, the last
\* entered first
ExitSaved ==
    /\ ctx_pc = "exiting"
    /\ ctx_saved # <<>>
    /\ ctx_exited' = Append(ctx_exited, Last(ctx_saved))
    /\ ctx_saved' = Front(ctx_saved)
    /\ UNCHANGED <<ctx_pc, ctx_stack, ctx_entered, ctx_exc>>
    /\ UNCHANGED nonCtxVars

\* line 98: self._stack.__exit__(...) returns
ExitReturns ==
    /\ ctx_pc = "exiting"
    /\ ctx_saved = <<>>
    /\ ctx_pc' = "exited"
    /\ UNCHANGED <<ctx_stack, ctx_saved, ctx_entered, ctx_exited, ctx_exc>>
    /\ UNCHANGED nonCtxVars

NextCtx ==
    \/ EnterResource
    \/ EnterRaises
    \/ PopAll
    \/ UnwindExit
    \/ EnterEnds
    \/ BenchExit
    \/ ExitSaved
    \/ ExitReturns

(***************************************************************************)
(* CSVLogger                                                               *)
(***************************************************************************)

\* The field names record types are built from, and the cell values.
FieldNames == {"time", "value", "result"}
CellValues == {"1.0", "4.0"}

\* The three shapes of record type field_names() reflects over.
Shapes == {"namedtuple", "dataclass", "basemodel"}

\* Sequences of length n over S
SeqsOfLen(S, n) == [1..n -> S]

\* Field-name lists: 1..MaxFields distinct names, in declaration order
FieldLists ==
    { f \in UNION { SeqsOfLen(FieldNames, n) : n \in 1..MaxFields } :
        \A i, j \in 1..Len(f) : i # j => f[i] # f[j] }

RecordTypes == [shape : Shapes, fields : FieldLists]

\* field_names(data_type): the names, by the strategy of the type's shape
field_names(rt) ==
    CASE rt.shape = "namedtuple" -> rt.fields   \* data_type._fields
      [] rt.shape = "dataclass"  -> rt.fields   \* dataclasses.fields(...)
      [] rt.shape = "basemodel"  -> rt.fields   \* data_type.model_fields

\* Mutant of HeadersMatch: the header is compared as a set of names
HeadersMatchAsSets(header, fields) ==
    { header[i] : i \in 1..Len(header) } = { fields[i] : i \in 1..Len(fields) }

\* The existing file's header agrees with the record type's field names
HeadersMatch(header, fields) == header = fields

\* Mutant of WritesHeader: the header is written by every constructor call
WritesHeaderAlways(existed) == TRUE

\* The header row is written only when the constructor creates the file
WritesHeader(existed) == ~existed

NoFile == [exists |-> FALSE, lines |-> <<>>]
NoLogger == [open |-> FALSE, fields |-> <<>>]
NoCall == [called |-> FALSE, existed |-> FALSE, header |-> <<>>,
           fields |-> <<>>, outcome |-> "none"]

IdleCsv ==
    /\ csv_file = NoFile
    /\ csv_logger = NoLogger
    /\ csv_logged = <<>>
    /\ csv_last = NoCall

InitCsv == IdleCsv

\* CSVLogger(filepath, data_type): open for append-or-create; raise
\* ValueError when the existing header disagrees; write the header when the
\* file is new.
OpenLogger ==
    /\ ~csv_logger.open
    /\ \E rt \in RecordTypes :
          LET fields  == field_names(rt)
              existed == csv_file.exists
              header  == IF existed THEN Head(csv_file.lines) ELSE <<>>
          IN  IF existed /\ ~HeadersMatch(header, fields)
              THEN /\ csv_last' = [called |-> TRUE, existed |-> existed,
                                   header |-> header, fields |-> fields,
                                   outcome |-> "ValueError"]
                   /\ UNCHANGED <<csv_file, csv_logger, csv_logged>>
              ELSE /\ csv_last' = [called |-> TRUE, existed |-> existed,
                                   header |-> header, fields |-> fields,
                                   outcome |-> "opened"]
                   /\ csv_logger' = [open |-> TRUE, fields |-> fields]
                   /\ csv_file' =
                        [exists |-> TRUE,
                         lines |-> IF WritesHeader(existed)
                                   THEN Append(csv_file.lines, fields)
                                   ELSE csv_file.lines]
                   /\ UNCHANGED csv_logged
    /\ UNCHANGED nonCsvVars

\* logger.log(data): one row, the record's values in field order
LogRecord ==
    /\ csv_logger.open
    /\ Len(csv_logged) < MaxRecords
    /\ \E row \in SeqsOfLen(CellValues, Len(csv_logger.fields)) :
          /\ csv_file' = [csv_file EXCEPT !.lines = Append(@, row)]
          /\ csv_logged' = Append(csv_logged, row)
    /\ UNCHANGED <<csv_logger, csv_last>>
    /\ UNCHANGED nonCsvVars

\* logger.close()
CloseLogger ==
    /\ csv_logger.open
    /\ csv_logger' = NoLogger
    /\ UNCHANGED <<csv_file, csv_logged, csv_last>>
    /\ UNCHANGED nonCsvVars

NextCsv ==
    \/ OpenLogger
    \/ LogRecord
    \/ CloseLogger

(***************************************************************************)
(* Command-line options: add_proxystore_options, add_ipfs_options and      *)
(* ExecutorConfig.add_parser_group, and parse_args on the parser built     *)
(***************************************************************************)

\* Python values held by a namespace
PyNone == [t |-> "None", v |-> ""]
PyFalse == [t |-> "bool", v |-> "False"]
PyTrue == [t |-> "bool", v |-> "True"]
Str(s) == [t |-> "str", v |-> s]

\* Python truthiness: `not x` is True for None, False and the empty string
Truthy(x) == ~(x = PyNone \/ x = PyFalse \/ x = Str(""))

\* One option of an argument list: the flag as spelled, what joins it to its
\* value in ' '.join(argv) (" " for the next token, "=" inside the token, ""
\* for a flag that takes no value), and the value.
Opt(flag, sep, val) == [flag |-> flag, sep |-> sep, val |-> val]

\* Mutant of BackendChoices: the choices list accepts a backend the store
\* dispatch does not know
BackendChoicesWithLocal ==
    {"FILE", "GLOBUS", "REDIS", "ENDPOINT", "MARGO", "UCX", "ZMQ", "LOCAL"}

\* choices=[...] of --ps-backend
BackendChoices == {"FILE", "GLOBUS", "REDIS", "ENDPOINT", "MARGO", "UCX", "ZMQ"}

\* choices of --executor
ExecutorChoices == {"dask", "globus", "parsl"}

Groups == {"proxystore", "ipfs", "executor"}

\* The options an argument list of the model is made of, per parser.
ItemsOf(group) ==
    CASE group = "proxystore" ->
            { Opt("--ps-backend", sep, b) : sep \in {" ", "="}, b \in BackendChoices }
            \cup { Opt("--ps-backend", " ", "LOCAL") }
            \cup { Opt(f, " ", "v") :
                     f \in {"--ps-endpoints", "--ps-file-dir",
                            "--ps-globus-config", "--ps-host"} }
            \cup { Opt("--ps-port", " ", "6379") }
      [] group = "ipfs" ->
            { Opt("--ipfs", "", ""),
              Opt("--ipfs-local-dir", " ", "v"),
              Opt("--ipfs-remote-dir", " ", "v") }
      [] group = "executor" ->
            { Opt("--executor", " ", k) : k \in ExecutorChoices }
            \cup { Opt("--globus-compute-endpoint", " ", "v") }

\* Argument lists of at most n options
ArgLists(group, n) == UNION { SeqsOfLen(ItemsOf(group), k) : k \in 0..n }

\* dest of each flag
DestOf(flag) ==
    CASE flag = "--ps-backend" -> "ps_backend"
      [] flag = "--ps-endpoints" -> "ps_endpoints"
      [] flag = "--ps-file-dir" -> "ps_file_dir"
      [] flag = "--ps-globus-config" -> "ps_globus_config"
      [] flag = "--ps-host" -> "ps_host"
      [] flag = "--ps-port" -> "ps_port"
      [] flag = "--ipfs" -> "ipfs"
      [] flag = "--ipfs-local-dir" -> "ipfs_local_dir"
      [] flag = "--ipfs-remote-dir" -> "ipfs_remote_dir"
      [] flag = "--executor" -> "executor"
      [] flag = "--globus-compute-endpoint" -> "globus_compute_endpoint"

\* The flags each parser knows
FlagsOf(group) ==
    CASE group = "proxystore" ->
            {"--ps-backend", "--ps-endpoints", "--ps-file-dir",
             "--ps-globus-config", "--ps-host", "--ps-port"}
      [] group = "ipfs" -> {"--ipfs", "--ipfs-local-dir", "--ipfs-remote-dir"}
      [] group = "executor" -> {"--executor", "--globus-compute-endpoint"}

Dests ==
    {"ps_backend", "ps_endpoints", "ps_file_dir", "ps_globus_config",
     "ps_host", "ps_port", "ipfs", "ipfs_local_dir", "ipfs_remote_dir",
     "executor", "globus_compute_endpoint"}

\* The namespace of defaults: None, and False for the store_true flag
Defaults == [d \in Dests |-> IF d = "ipfs" THEN PyFalse ELSE PyNone]

\* re.search('--ps-backend( |=)(A|B|...)', ' '.join(sys.argv))
SearchBackend(argv, names) ==
    \E i \in 1..Len(argv) :
        /\ argv[i].flag = "--ps-backend"
        /\ argv[i].sep \in {" ", "="}
        /\ argv[i].val \in names

\* re.search(r'--ipfs($|\s)', ' '.join(sys.argv))
SearchIpfs(argv) ==
    \E i \in 1..Len(argv) : argv[i].flag = "--ipfs" /\ argv[i].sep = ""

\* Mutant of PortBackends: the pattern of --ps-port leaves ZMQ out
PortBackendsNoZmq == {"REDIS", "MARGO", "UCX"}

\* '--ps-backend( |=)(REDIS|MARGO|UCX|ZMQ)'
PortBackends == {"REDIS", "MARGO", "UCX", "ZMQ"}

\* add_proxystore_options(parser, required): the dests made required=True
add_proxystore_options(argv, required) ==
    (IF required THEN {"ps_backend"} ELSE {})
    \cup (IF SearchBackend(argv, {"ENDPOINT"}) THEN {"ps_endpoints"} ELSE {})
    \cup (IF SearchBackend(argv, {"FILE"}) THEN {"ps_file_dir"} ELSE {})
    \cup (IF SearchBackend(argv, {"GLOBUS"}) THEN {"ps_globus_config"} ELSE {})
    \cup (IF SearchBackend(argv, {"REDIS"}) THEN {"ps_host"} ELSE {})
    \cup (IF SearchBackend(argv, PortBackends) THEN {"ps_port"} ELSE {})

\* add_ipfs_options(parser): the dests made required=True
add_ipfs_options(argv) ==
    IF SearchIpfs(argv) THEN {"ipfs_local_dir", "ipfs_remote_dir"} ELSE {}

\* ExecutorConfig.add_parser_group(parser, required=..., argv=...): the
\* executor named after --executor in argv makes its own options required
executor_add_parser_group(argv, required) ==
    (IF required THEN {"executor"} ELSE {})
    \cup (IF \E i \in 1..Len(argv) :
                argv[i].flag = "--executor" /\ argv[i].val = "globus"
          THEN {"globus_compute_endpoint"} ELSE {})

\* The value an option must have: choices=..., type=int
ValidValue(o) ==
    CASE o.flag = "--ps-backend" -> o.val \in BackendChoices
      [] o.flag = "--executor" -> o.val \in ExecutorChoices
      [] o.flag = "--ps-port" -> o.val \in {"6379"}
      [] OTHER -> TRUE

\* The value stored in the namespace
StoredValue(o) == IF o.flag = "--ipfs" THEN PyTrue ELSE Str(o.val)

ParseExit == [status |-> "exit", ns |-> Defaults]
NotParsed == [source |-> "none", result |-> [status |-> "none", ns |-> Defaults]]

\* The options of the list taken in order: an unknown flag or a bad value
\* ends the process with a usage error, a later value replaces an earlier one
RECURSIVE ParseFrom(_, _, _)
ParseFrom(list, group, ns) ==
    IF list = <<>>
    THEN [status |-> "namespace", ns |-> ns]
    ELSE LET o == Head(list)
         IN  IF o.flag \notin FlagsOf(group) \/ ~ValidValue(o)
             THEN ParseExit
             ELSE ParseFrom(Tail(list), group,
                            [ns EXCEPT ![DestOf(o.flag)] = StoredValue(o)])

\* The dests the list gives a value
Seen(list) == { DestOf(list[i].flag) : i \in 1..Len(list) }

\* parser.parse_args(list): a required dest the list does not give is a
\* usage error
parse_args(list, group, required) ==
    LET r == ParseFrom(list, group, Defaults)
    IN  IF r.status = "namespace" /\ ~(required \subseteq Seen(list))
        THEN ParseExit
        ELSE r

(***************************************************************************)
(* init_store_from_args                                                    *)
(***************************************************************************)

\* Mutant of ConnectorFor: the dispatch ends in a default connector instead
\* of raising
ConnectorForWithDefault(b) ==
    CASE b = "ENDPOINT" -> "EndpointConnector"
      [] b = "FILE" -> "FileConnector"
      [] b = "GLOBUS" -> "GlobusConnector"
      [] b = "REDIS" -> "RedisConnector"
      [] b = "MARGO" -> "MargoConnector"
      [] b = "UCX" -> "UCXConnector"
      [] b = "ZMQ" -> "ZeroMQConnector"
      [] OTHER -> "FileConnector"

\* The if/elif chain on args.ps_backend; "" stands for the else branch
ConnectorFor(b) ==
    CASE b = "ENDPOINT" -> "EndpointConnector"
      [] b = "FILE" -> "FileConnector"
      [] b = "GLOBUS" -> "GlobusConnector"
      [] b = "REDIS" -> "RedisConnector"
      [] b = "MARGO" -> "MargoConnector"
      [] b = "UCX" -> "UCXConnector"
      [] b = "ZMQ" -> "ZeroMQConnector"
      [] OTHER -> ""

\* f'{args.ps_backend}-STORE'
StoreName(b) == <<b, "-STORE">>

NoStoreCall ==
    [kind |-> "none", backend |-> PyNone, name |-> <<>>, connector |-> ""]

\* init_store_from_args(args): what it returns or raises
init_store_from_args(ns) ==
    LET b == ns["ps_backend"]
    IN  IF ~Truthy(b)
        THEN [kind |-> "None", backend |-> b, name |-> <<>>, connector |-> ""]
        ELSE IF ConnectorFor(b.v) = ""
        THEN [kind |-> "ValueError", backend |-> b, name |-> <<b.v>>,
              connector |-> ""]
        ELSE [kind |-> "Store", backend |-> b, name |-> StoreName(b.v),
              connector |-> ConnectorFor(b.v)]

\* The ps_backend values of a namespace built by the caller
BackendValues ==
    {PyNone, Str("")} \cup { Str(b) : b \in BackendChoices }
    \cup {Str("LOCAL"), Str("file"), Str("None")}

(***************************************************************************)
(* ExecutorConfig, ParslConfig                                             *)
(***************************************************************************)

\* ExecutorConfig.from_args: the inner configuration of each kind
ConfigFor(kind) ==
    CASE kind = "dask" -> "DaskConfig"
      [] kind = "globus" -> "GlobusComputeConfig"
      [] kind = "parsl" -> "ParslConfig"

\* The executor names ParslConfig.get_executor knows
ParslExecutors == {"thread", "htex-local", "htex-polaris-headless"}

\* The executor names given to ParslConfig in the model
ParslExecutorValues == ParslExecutors \cup {"unknown", "Thread"}

\* Mutant of ExecutorFor: the Globus Compute configuration builds a Dask
\* executor
ExecutorForSwapped(config, parsl_executor) ==
    CASE config = "DaskConfig" -> "DaskExecutor"
      [] config = "GlobusComputeConfig" -> "DaskExecutor"
      [] config = "ParslConfig" ->
            IF parsl_executor \in ParslExecutors THEN "ParslExecutor" ELSE ""

\* get_executor of each configuration; "" stands for raising ValueError
ExecutorFor(config, parsl_executor) ==
    CASE config = "DaskConfig" -> "DaskExecutor"
      [] config = "GlobusComputeConfig" -> "GlobusComputeExecutor"
      [] config = "ParslConfig" ->
            IF parsl_executor \in ParslExecutors THEN "ParslExecutor" ELSE ""

NoExecutorCall ==
    [kind |-> "", config |-> "", parsl_executor |-> "", executor |-> "",
     error |-> <<>>]

(***************************************************************************)
(* The command-line handling of a process                                  *)
(***************************************************************************)

\* No command line is being handled
IdleArgs ==
    /\ arg_pc = "idle"
    /\ arg_group = "proxystore"
    /\ scanned_argv = <<>>
    /\ opt_required = {}
    /\ parse_out = NotParsed
    /\ store_out = NoStoreCall
    /\ store_registry = {}
    /\ stores_created = {}
    /\ exec_out = NoExecutorCall

\* A process starts with its sys.argv
InitArgs ==
    /\ arg_pc = "start"
    /\ arg_group \in Groups
    /\ scanned_argv \in ArgLists(arg_group, MaxArgs)
    /\ opt_required = {}
    /\ parse_out = NotParsed
    /\ store_out = NoStoreCall
    /\ store_registry = {}
    /\ stores_created = {}
    /\ exec_out = NoExecutorCall

\* add_proxystore_options(parser, required)
AddProxystoreOptions ==
    /\ arg_pc = "start"
    /\ arg_group = "proxystore"
    /\ \E required \in BOOLEAN :
          opt_required' = add_proxystore_options(scanned_argv, required)
    /\ arg_pc' = "added"
    /\ UNCHANGED <<arg_group, scanned_argv, parse_out, store_out,
                   store_registry, stores_created, exec_out>>
    /\ UNCHANGED nonArgVars

\* add_ipfs_options(parser)
AddIpfsOptions ==
    /\ arg_pc = "start"
    /\ arg_group = "ipfs"
    /\ opt_required' = add_ipfs_options(scanned_argv)
    /\ arg_pc' = "added"
    /\ UNCHANGED <<arg_group, scanned_argv, parse_out, store_out,
                   store_registry, stores_created, exec_out>>
    /\ UNCHANGED nonArgVars

\* ExecutorConfig.add_parser_group(parser, required=..., argv=...)
AddExecutorOptions ==
    /\ arg_pc = "start"
    /\ arg_group = "executor"
    /\ \E required \in BOOLEAN :
          opt_required' = executor_add_parser_group(scanned_argv, required)
    /\ arg_pc' = "added"
    /\ UNCHANGED <<arg_group, scanned_argv, parse_out, store_out,
                   store_registry, stores_created, exec_out>>
    /\ UNCHANGED nonArgVars

\* parser.parse_args(): the list parsed is the one that was scanned
ParseSysArgv ==
    /\ arg_pc = "added"
    /\ parse_out' = [source |-> "sys.argv",
                     result |-> parse_args(scanned_argv, arg_group, opt_required)]
    /\ arg_pc' = "parsed"
    /\ UNCHANGED <<arg_group, scanned_argv, opt_required, store_out,
                   store_registry, stores_created, exec_out>>
    /\ UNCHANGED nonArgVars

\* parser.parse_args(list), with a list of the caller's
ParseExplicit ==
    /\ arg_pc = "added"
    /\ \E list \in ArgLists(arg_group, MaxExplicit) :
          parse_out' = [source |-> "explicit",
                        result |-> parse_args(list, arg_group, opt_required)]
    /\ arg_pc' = "parsed"
    /\ UNCHANGED <<arg_group, scanned_argv, opt_required, store_out,
                   store_registry, stores_created, exec_out>>
    /\ UNCHANGED nonArgVars

\* What a call of init_store_from_args leaves behind: Store(...) is
\* constructed and register_store(store) called on the way to `return store`
StoreCall(ns) ==
    LET r == init_store_from_args(ns)
    IN  /\ store_out' = r
        /\ stores_created' =
              IF r.kind = "Store" THEN stores_created \cup {r.name}
              ELSE stores_created
        /\ store_registry' =
              IF r.kind = "Store" THEN store_registry \cup {r.name}
              ELSE store_registry

\* store = init_store_from_args(args), args the namespace parse_args returned
InitStoreFromParsed ==
    /\ arg_pc = "parsed"
    /\ arg_group = "proxystore"
    /\ parse_out.result.status = "namespace"
    /\ StoreCall(parse_out.result.ns)
    /\ arg_pc' = "store_done"
    /\ UNCHANGED <<arg_group, scanned_argv, opt_required, parse_out, exec_out>>
    /\ UNCHANGED nonArgVars

\* init_store_from_args(args), args a namespace the caller built
InitStoreFromNamespace ==
    /\ arg_pc = "start"
    /\ arg_group = "proxystore"
    /\ scanned_argv = <<>>
    /\ \E b \in BackendValues :
          StoreCall([Defaults EXCEPT !["ps_backend"] = b])
    /\ arg_pc' = "store_done"
    /\ UNCHANGED <<arg_group, scanned_argv, opt_required, parse_out, exec_out>>
    /\ UNCHANGED nonArgVars

\* config = ExecutorConfig.from_args(**vars(args))
ExecutorFromArgs ==
    /\ arg_pc = "parsed"
    /\ arg_group = "executor"
    /\ parse_out.result.status = "namespace"
    /\ parse_out.result.ns["executor"] # PyNone
    /\ \E pe \in ParslExecutors :
          LET kind == parse_out.result.ns["executor"].v
          IN  exec_out' = [kind |-> kind, config |-> ConfigFor(kind),
                           parsl_executor |->
                               IF kind = "parsl" THEN pe ELSE "",
                           executor |-> "", error |-> <<>>]
    /\ arg_pc' = "exec_config"
    /\ UNCHANGED <<arg_group, scanned_argv, opt_required, parse_out,
                   store_out, store_registry, stores_created>>
    /\ UNCHANGED nonArgVars

\* config = ParslConfig(executor=name, run_dir=..., max_workers=...)
NewParslConfig ==
    /\ arg_pc = "start"
    /\ arg_group = "executor"
    /\ scanned_argv = <<>>
    /\ \E name \in ParslExecutorValues :
          exec_out' = [kind |-> "", config |-> "ParslConfig",
                       parsl_executor |-> name, executor |-> "",
                       error |-> <<>>]
    /\ arg_pc' = "exec_config"
    /\ UNCHANGED <<arg_group, scanned_argv, opt_required, parse_out,
                   store_out, store_registry, stores_created>>
    /\ UNCHANGED nonArgVars

\* config.get_executor()
GetExecutor ==
    /\ arg_pc = "exec_config"
    /\ LET e == ExecutorFor(exec_out.config, exec_out.parsl_executor)
       IN  exec_out' =
             [exec_out EXCEPT
                !.executor = e,
                !.error = IF e = ""
                          THEN <<"ValueError", exec_out.parsl_executor>>
                          ELSE <<>>]
    /\ arg_pc' = "exec_done"
    /\ UNCHANGED <<arg_group, scanned_argv, opt_required, parse_out,
                   store_out, store_registry, stores_created>>
    /\ UNCHANGED nonArgVars

NextArgs ==
    \/ AddProxystoreOptions
    \/ AddIpfsOptions
    \/ AddExecutorOptions
    \/ ParseSysArgv
    \/ ParseExplicit
    \/ InitStoreFromParsed
    \/ InitStoreFromNamespace
    \/ ExecutorFromArgs
    \/ NewParslConfig
    \/ GetExecutor

(***************************************************************************)
(* Specifications                                                          *)
(***************************************************************************)

Init == InitRun /\ IdleCsv /\ IdleArgs /\ InitCtx

Next == NextRun \/ NextCtx

\* A Benchmark: __enter__, run, __exit__
Spec == Init /\ [][Next]_vars

\* The steps of the thread that calls run(), the KeyboardInterrupt excepted
MainStep ==
    \/ SubmitGenerator
    \/ ConsumeItem
    \/ StreamEnd
    \/ SubmitCompute
    \/ AppendTask
    \/ CheckWindow
    \/ AwaitOldest
    \/ CountCompleted
    \/ HandleInterrupt
    \/ FinallyWaitGenerator
    \/ JoinGenerator
    \/ DrainPop
    \/ DrainAwait

\* A Benchmark whose calling thread keeps running, whose executor completes
\* every submitted task, and whose generator keeps publishing until it has
\* sent its items or sees the stop flag, and then finishes.  A
\* KeyboardInterrupt may or may not arrive.
SpecLive ==
    /\ Init
    /\ [][Next]_vars
    /\ WF_vars(MainStep)
    /\ WF_vars(TaskComplete)
    /\ WF_vars(GenPublish)
    /\ WF_vars(GenFinish)

\* CSVLogger
InitSpecCsv == IdleRun /\ InitCsv /\ IdleArgs /\ IdleCtx

SpecCsv == InitSpecCsv /\ [][NextCsv]_vars

\* Command line, store and executor configuration
InitSpecArgs == IdleRun /\ IdleCsv /\ InitArgs /\ IdleCtx

SpecArgs == InitSpecArgs /\ [][NextArgs]_vars

(***************************************************************************)
(* Claims about Benchmark.run                                              *)
(***************************************************************************)

\* The positions after the try block: run() is waiting on the generator,
\* draining, or has returned.
AfterLoopPcs == {"finally", "join", "drain", "drain_await", "done"}

\* C1: with max_workers >= 2, at every point of Benchmark.run the number of
\* compute futures held in running_tasks (submitted and not yet awaited) is
\* at most max_workers - 1.
C1_WindowBound == Len(running_tasks) <= max_workers - 1

\* C1 witness: the window holds max_workers - 1 futures, for a pool of at
\* least three workers, right after an append.
C1_Witness ==
    /\ pc = "check"
    /\ max_workers >= 3
    /\ Len(running_tasks) = max_workers - 1

\* C2: run() awaits compute futures in FIFO order: the i-th future it blocks
\* on, in the submit loop or in the final drain, is the i-th future
\* submitted, so each await is on the oldest future not yet awaited.
C2_FifoAwait == \A i \in 1..Len(awaited) : awaited[i] = i

\* C2 witness: the final drain blocks on its second future while the loop
\* already awaited one, and a newer future is still queued behind it.
C2_Witness ==
    /\ pc = "drain_await"
    /\ Len(awaited) >= 3
    /\ completed_tasks >= 1
    /\ Len(running_tasks) >= 1

\* C3: after a KeyboardInterrupt in the consume/submit loop, run() returns
\* only after awaiting every compute future that was submitted, so
\* completed_tasks equals the number of compute tasks submitted.
C3_InterruptDrainsAll ==
    (pc = "done" /\ interrupted) =>
        /\ completed_tasks = submitted
        /\ Len(awaited) = submitted

\* C4: after a KeyboardInterrupt in the loop, whenever run() is waiting on
\* the generator task's future or draining the remaining compute futures,
\* the stop flag has already been set.
C4_StopBeforeJoin ==
    (interrupted /\ pc \in AfterLoopPcs) => stop_generator

\* C4 witness: run() is blocked on the generator's future after an
\* interrupt, the generator still running and futures still queued.
C4_Witness ==
    /\ interrupted
    /\ pc = "finally"
    /\ ~gen_done
    /\ Len(running_tasks) >= 1

\* C11: when the consume/submit loop ends without a KeyboardInterrupt,
\* exactly compute_workers (= max_workers - 1) compute futures remain in
\* running_tasks for the final drain (stated for the runs that consume at
\* least compute_workers items, so that the window can fill).
C11_DrainFindsComputeWorkers ==
    (pc = "finally" /\ ~interrupted /\ task_count >= compute_workers)
        => Len(running_tasks) = compute_workers

\* The items the stream consumer has yielded to the loop
consumed_items == gen_sent - stream_pending

\* C12: when run() returns without an interrupt, completed_tasks equals the
\* number of items the consumer yielded: one compute task was submitted per
\* consumed item and each submitted future was awaited exactly once.
C12_CompletedEqualsConsumed ==
    (pc = "done" /\ ~interrupted) =>
        /\ completed_tasks = consumed_items
        /\ submitted = consumed_items
        /\ Len(awaited) = submitted
        /\ \A t \in 1..submitted :
              Cardinality({ i \in 1..Len(awaited) : awaited[i] = t }) = 1

\* C12 witness: run() returned without an interrupt after at least three
\* items, some awaited in the loop and some in the final drain.
C12_Witness ==
    /\ pc = "done"
    /\ ~interrupted
    /\ max_workers >= 3
    /\ completed_tasks >= 3
    /\ completed_tasks = task_count

\* C13: Benchmark.run terminates.  When the generator publishes finitely
\* many items and ends the stream, every submitted task completes and the
\* generator finishes once its stop flag is set, a run that has started
\* eventually returns, with or without a KeyboardInterrupt in its loop;
\* and whenever run is draining the remaining futures or has returned,
\* the generator task has finished.
C13_RunTerminates ==
    /\ (pc # "start") ~> (pc = "done")
    /\ [](pc \in {"drain", "drain_await", "done"} => gen_done)

\* C13 witness: run has returned after an interrupt that stopped the
\* generator before it had published all its items, with futures drained
\* after the generator finished
C13_Witness ==
    /\ pc = "done"
    /\ interrupted
    /\ gen_done
    /\ gen_sent < task_count
    /\ completed_tasks >= 1

(***************************************************************************)
(* Claims about Benchmark.__enter__ and Benchmark.__exit__                 *)
(***************************************************************************)

Reverse(q) == [i \in 1..Len(q) |-> q[Len(q) + 1 - i]]

IsPrefix(p, q) == Len(p) <= Len(q) /\ p = SubSeq(q, 1, Len(p))

\* C14: __enter__ enters the consumer, the executor and the store in that
\* order and is all-or-nothing.  The resources entered are always a prefix
\* of (consumer, executor, store).  When __enter__ has raised, at least one
\* resource was not entered, every resource that was entered has been
\* exited (the last entered first) and the exception propagates.  When
\* __enter__ has returned, all three are entered and none is exited, and
\* none is until __exit__ is called.  While __exit__ runs it exits them in
\* the order store, executor, consumer, and when it has returned each has
\* been exited exactly once.
C14_EnterAllOrNothing ==
    /\ IsPrefix(ctx_entered, Resources)
    /\ ctx_pc = "raised" =>
          /\ ctx_exc
          /\ Len(ctx_entered) < Len(Resources)
          /\ ctx_exited = Reverse(ctx_entered)
    /\ ctx_pc = "entered" =>
          /\ ~ctx_exc
          /\ ctx_entered = Resources
          /\ ctx_exited = <<>>
    /\ ctx_pc = "exiting" => IsPrefix(ctx_exited, Reverse(Resources))
    /\ ctx_pc = "exited" =>
          /\ ctx_exited = <<"store", "executor", "consumer">>
          /\ \A r \in {"consumer", "executor", "store"} :
                Cardinality({ i \in 1..Len(ctx_exited) : ctx_exited[i] = r }) = 1

\* C14 witness: entering the store raised after the consumer and the
\* executor were entered, and both were exited, the executor first
C14_Witness ==
    /\ ctx_pc = "raised"
    /\ ctx_entered = <<"consumer", "executor">>
    /\ ctx_exited = <<"executor", "consumer">>

(***************************************************************************)
(* Claims about CSVLogger                                                  *)
(***************************************************************************)

\* C5: the header row is written only when the logger creates the file:
\* after any sequence of opening a logger on the path, logging and closing,
\* the file holds exactly one header line (the field names) followed by
\* exactly one line per logged record, in order.
C5_OneHeader ==
    csv_file.exists =>
        /\ Len(csv_file.lines) = 1 + Len(csv_logged)
        /\ Head(csv_file.lines) \in FieldLists
        /\ Tail(csv_file.lines) = csv_logged
        /\ csv_logger.open => Head(csv_file.lines) = csv_logger.fields

\* C5 witness: a logger was opened on the existing file, it logged, and it
\* was closed; the file holds records of more than one logger.
C5_Witness ==
    /\ csv_last.called /\ csv_last.existed /\ csv_last.outcome = "opened"
    /\ ~csv_logger.open
    /\ Len(csv_logged) = MaxRecords

\* C6: constructing a CSVLogger on a path whose existing file has a header
\* that differs from the field names of the record type raises ValueError
\* (and opens no logger), for any pair of differing field-name lists.
C6_MismatchRaises ==
    (csv_last.called /\ csv_last.existed /\ csv_last.header # csv_last.fields)
        => csv_last.outcome = "ValueError"

\* C6 witness: the constructor raised on a header that holds the same names
\* as the record type, in another order.
C6_Witness ==
    /\ csv_last.outcome = "ValueError"
    /\ Len(csv_last.header) = Len(csv_last.fields)
    /\ Len(csv_last.header) >= 2
    /\ HeadersMatchAsSets(csv_last.header, csv_last.fields)
    /\ ~csv_logger.open

(***************************************************************************)
(* Claims about the command line, the store and the executor               *)
(***************************************************************************)

\* The companion dests of each choice, as the claim lists them
CompanionsOf(dest, val) ==
    CASE dest = "ps_backend" /\ val = Str("ENDPOINT") -> {"ps_endpoints"}
      [] dest = "ps_backend" /\ val = Str("FILE") -> {"ps_file_dir"}
      [] dest = "ps_backend" /\ val = Str("GLOBUS") -> {"ps_globus_config"}
      [] dest = "ps_backend" /\ val = Str("REDIS") -> {"ps_host", "ps_port"}
      [] dest = "ps_backend" /\ val \in {Str("MARGO"), Str("UCX"), Str("ZMQ")}
            -> {"ps_port"}
      [] dest = "ipfs" /\ val = PyTrue -> {"ipfs_local_dir", "ipfs_remote_dir"}
      [] dest = "executor" /\ val = Str("globus") -> {"globus_compute_endpoint"}
      [] OTHER -> {}

\* The companion dests of the choices a namespace holds
NeededByNamespace(ns) == UNION { CompanionsOf(d, ns[d]) : d \in Dests }

\* The companion dests of the choices an argument list spells
NeededByList(list) ==
    UNION { CompanionsOf(DestOf(list[i].flag), StoredValue(list[i])) :
              i \in 1..Len(list) }

\* C7 (as claimed), for the parsers src/psbench/argparse.py builds: whenever
\* the parsed argument list selects a choice that has companion flags and
\* omits one of them, parse_args exits instead of returning a namespace: a
\* namespace returned holds every companion of the choices it holds.
C7_ParsedChoiceNeedsCompanions ==
    (parse_out.result.status = "namespace"
        /\ arg_group \in {"proxystore", "ipfs"}) =>
        \A d \in NeededByNamespace(parse_out.result.ns) :
            parse_out.result.ns[d] # PyNone

\* C7 (amended): whenever the argument list scanned when the options were
\* added (sys.argv, or the argv given to ExecutorConfig.add_parser_group)
\* selects a choice that has companion flags, parsing any list that omits
\* one of them exits: a namespace returned holds every companion of the
\* choices of the scanned list.
C7_ScannedChoiceNeedsCompanions ==
    parse_out.result.status = "namespace" =>
        \A d \in NeededByList(scanned_argv) :
            parse_out.result.ns[d] # PyNone

\* C7 witness: sys.argv selects REDIS with --ps-backend=REDIS and gives
\* --ps-host but no --ps-port, and parse_args() has exited.
C7_Witness ==
    /\ arg_pc = "parsed"
    /\ parse_out.source = "sys.argv"
    /\ parse_out.result.status = "exit"
    /\ scanned_argv = <<Opt("--ps-backend", "=", "REDIS"),
                        Opt("--ps-host", " ", "v")>>
    /\ opt_required = {"ps_host", "ps_port"}

\* The backends the claim names as recognized
RecognizedBackends == {"ENDPOINT", "FILE", "GLOBUS", "REDIS", "MARGO", "UCX", "ZMQ"}

\* C8: dispatch on an unrecognized string raises ValueError and constructs
\* nothing: init_store_from_args with a non-empty ps_backend outside the
\* seven recognized names raises before any Store is created or registered,
\* and ParslConfig.get_executor with an unknown executor name raises a
\* ValueError naming that executor and builds no executor.
C8_UnknownChoiceRaises ==
    /\ (arg_pc = "store_done" /\ Truthy(store_out.backend)
            /\ store_out.backend.v \notin RecognizedBackends)
        => /\ store_out.kind = "ValueError"
           /\ stores_created = {}
           /\ store_registry = {}
    /\ (arg_pc = "exec_done" /\ exec_out.config = "ParslConfig"
            /\ exec_out.parsl_executor \notin {"thread", "htex-local",
                                               "htex-polaris-headless"})
        => /\ exec_out.error = <<"ValueError", exec_out.parsl_executor>>
           /\ exec_out.executor = ""

\* C8 witness (store): init_store_from_args raised on the backend 'LOCAL'.
C8_Witness ==
    /\ arg_pc = "store_done"
    /\ store_out.backend = Str("LOCAL")
    /\ store_out.kind = "ValueError"

\* C9: ExecutorConfig.from_args maps the --executor choice k to a config with
\* kind k whose inner config is that backend's (DaskConfig,
\* GlobusComputeConfig, ParslConfig), and get_executor on it builds that
\* backend's executor (DaskExecutor, GlobusComputeExecutor, ParslExecutor).
C9_ExecutorOfChoice ==
    (arg_pc \in {"exec_config", "exec_done"} /\ exec_out.kind # "") =>
        /\ Str(exec_out.kind) = parse_out.result.ns["executor"]
        /\ exec_out.kind = "dask" =>
              /\ exec_out.config = "DaskConfig"
              /\ arg_pc = "exec_done" => exec_out.executor = "DaskExecutor"
        /\ exec_out.kind = "globus" =>
              /\ exec_out.config = "GlobusComputeConfig"
              /\ arg_pc = "exec_done" =>
                    exec_out.executor = "GlobusComputeExecutor"
        /\ exec_out.kind = "parsl" =>
              /\ exec_out.config = "ParslConfig"
              /\ arg_pc = "exec_done" => exec_out.executor = "ParslExecutor"
        /\ exec_out.kind \in {"dask", "globus", "parsl"}

\* C9 witness: --executor globus --globus-compute-endpoint v was parsed from
\* sys.argv and get_executor built the Globus Compute executor.
C9_Witness ==
    /\ arg_pc = "exec_done"
    /\ parse_out.source = "sys.argv"
    /\ exec_out.kind = "globus"
    /\ exec_out.executor = "GlobusComputeExecutor"
    /\ parse_out.result.ns["globus_compute_endpoint"] = Str("v")

\* C10: init_store_from_args returns None, creating and registering no store,
\* exactly when args.ps_backend is unset or empty; for each of the seven
\* backends of the --ps-backend choices it returns a registered Store named
\* '<BACKEND>-STORE'; and no namespace returned by a parser built with
\* add_proxystore_options reaches the invalid-backend error.
C10_StoreOfBackend ==
    arg_pc = "store_done" =>
        /\ (store_out.kind = "None") <=>
              (store_out.backend = PyNone \/ store_out.backend = Str(""))
        /\ store_out.kind = "None" =>
              (stores_created = {} /\ store_registry = {})
        /\ \A b \in RecognizedBackends :
              store_out.backend = Str(b) =>
                  /\ store_out.kind = "Store"
                  /\ store_out.name = <<b, "-STORE">>
                  /\ store_out.name \in stores_created
                  /\ store_out.name \in store_registry
        /\ parse_out.result.status = "namespace" =>
              store_out.kind # "ValueError"

\* C10 witness: --ps-backend ZMQ --ps-port 6379 was parsed from sys.argv, the
\* port being required, and the store ZMQ-STORE was returned.
C10_Witness ==
    /\ arg_pc = "store_done"
    /\ parse_out.source = "sys.argv"
    /\ "ps_port" \in opt_required
    /\ store_out.kind = "Store"
    /\ store_out.name = <<"ZMQ", "-STORE">>
    /\ store_out.connector = "ZeroMQConnector"

====
